---- MODULE Spec2Model ----
(***************************************************************************)
(* Pelican Bingo: deterministic card generation, bingo detection and the   *)
(* single-page UI state machine (state, localStorage, screens).            *)
(*                                                                         *)
(* The current source of the application is the TypeScript listing in      *)
(* src/README.md (lines 42-790); src/app.js is an older square-grid        *)
(* version.  Line numbers in comments refer to src/README.md.              *)
(*                                                                         *)
(* Strings that are hashed (event id, player name) are sequences of UTF-16 *)
(* code units.  A 32-bit word is a record [hi, lo] of two 16-bit halves,   *)
(* since the model checker's integers are themselves 32-bit.               *)
(***************************************************************************)
EXTENDS Integers, Sequences, FiniteSets, TLC

\* ------------------------------------------------------------------------
\* Direct calls of the core functions
\* ------------------------------------------------------------------------
VARIABLES
  call,          \* the arguments of the call
  ret,           \* the result of the latest call
  genRng         \* the generator closure of the latest generateCard run

\* null / undefined / an absent storage item
Null == [null |-> TRUE]

\* ------------------------------------------------------------------------
\* Bounds of the model
\* ------------------------------------------------------------------------
\* largest number of relatives in a generator input
MaxRelCount == 2
\* largest number of phrases of one relative in a generator input
MaxPhrases == 2
\* largest maxRelatives / phrasesPerRelative passed to the generator
MaxLimit == 2
\* largest number of rows and of columns of a grid given to the detector
MaxDim == 3

\* ------------------------------------------------------------------------
\* 32-bit arithmetic of the JavaScript bitwise operators
\* ------------------------------------------------------------------------
W16 == 65536

Word(h, l) == [hi |-> h, lo |-> l]

\* a ^ b on 4-bit operands, row a, column b
XorTab ==
  <<  0,  1,  2,  3,  4,  5,  6,  7,  8,  9, 10, 11, 12, 13, 14, 15,
      1,  0,  3,  2,  5,  4,  7,  6,  9,  8, 11, 10, 13, 12, 15, 14,
      2,  3,  0,  1,  6,  7,  4,  5, 10, 11,  8,  9, 14, 15, 12, 13,
      3,  2,  1,  0,  7,  6,  5,  4, 11, 10,  9,  8, 15, 14, 13, 12,
      4,  5,  6,  7,  0,  1,  2,  3, 12, 13, 14, 15,  8,  9, 10, 11,
      5,  4,  7,  6,  1,  0,  3,  2, 13, 12, 15, 14,  9,  8, 11, 10,
      6,  7,  4,  5,  2,  3,  0,  1, 14, 15, 12, 13, 10, 11,  8,  9,
      7,  6,  5,  4,  3,  2,  1,  0, 15, 14, 13, 12, 11, 10,  9,  8,
      8,  9, 10, 11, 12, 13, 14, 15,  0,  1,  2,  3,  4,  5,  6,  7,
      9,  8, 11, 10, 13, 12, 15, 14,  1,  0,  3,  2,  5,  4,  7,  6,
     10, 11,  8,  9, 14, 15, 12, 13,  2,  3,  0,  1,  6,  7,  4,  5,
     11, 10,  9,  8, 15, 14, 13, 12,  3,  2,  1,  0,  7,  6,  5,  4,
     12, 13, 14, 15,  8,  9, 10, 11,  4,  5,  6,  7,  0,  1,  2,  3,
     13, 12, 15, 14,  9,  8, 11, 10,  5,  4,  7,  6,  1,  0,  3,  2,
     14, 15, 12, 13, 10, 11,  8,  9,  6,  7,  4,  5,  2,  3,  0,  1,
     15, 14, 13, 12, 11, 10,  9,  8,  7,  6,  5,  4,  3,  2,  1,  0 >>

Xor4(a, b) == XorTab[a * 16 + b + 1]

\* a ^ b on operands of n 4-bit digits
RECURSIVE XorDigits(_, _, _)
XorDigits(a, b, n) ==
  IF n = 0 THEN 0
  ELSE Xor4(a % 16, b % 16) + 16 * XorDigits(a \div 16, b \div 16, n - 1)

Xor16(a, b) == XorDigits(a, b, 4)

\* a ^ b
Xor32(a, b) == Word(Xor16(a.hi, b.hi), Xor16(a.lo, b.lo))

RECURSIVE BitOr(_, _, _)
BitOr(a, b, n) ==
  IF n = 0 THEN 0
  ELSE (IF (a % 2) + (b % 2) > 0 THEN 1 ELSE 0) + 2 * BitOr(a \div 2, b \div 2, n - 1)

\* a | c for a constant 0 <= c < 64
OrSmall(a, c) == Word(a.hi, (a.lo \div 64) * 64 + BitOr(a.lo % 64, c, 6))

\* a >>> k for 0 < k < 16, p = 2^k
Shr32(a, p) == Word(a.hi \div p, (a.lo \div p) + ((a.hi % p) * (W16 \div p)))

\* (a + b) modulo 2^32
Add32(a, b) == Word((a.hi + b.hi + ((a.lo + b.lo) \div W16)) % W16, (a.lo + b.lo) % W16)

\* (a - b) modulo 2^32
Sub32(a, b) ==
  LET l == a.lo + W16 - b.lo
  IN Word((a.hi + W16 + W16 - b.hi - (IF l < W16 THEN 1 ELSE 0)) % W16, l % W16)

\* (a << 5) modulo 2^32
Shl5(a) == Word((a.hi * 32 + (a.lo \div 2048)) % W16, (a.lo * 32) % W16)

\* the 32-bit product of two 16-bit numbers
Mul16(x, y) ==
  LET p0 == (x % 256) * y
      p1 == (x \div 256) * y
      m == p0 + ((p1 % 256) * 256)
  IN Word((p1 \div 256) + (m \div W16), m % W16)

\* Math.imul(a, b): the low 32 bits of the product
ImulSum(ll, hl, lh) == Word((ll.hi + hl.lo + lh.lo) % W16, ll.lo)

Imul(a, b) == ImulSum(Mul16(a.lo, b.lo), Mul16(a.hi, b.lo), Mul16(a.lo, b.hi))

\* ToInt32 / ToUint32 of a non-negative number: its low 32 bits
ToUint32(n) == Word(n.hi % W16, n.lo)

\* ------------------------------------------------------------------------
\* PRNG (Mulberry32)                                        lines 103-110
\* ------------------------------------------------------------------------
\* 0x6d2b79f5
Gamma == Word(27947, 31221)

\* mulberry32(seed): the closure; seed is its captured variable (a number
\* that is never truncated: hi is unbounded), calls counts its invocations
mulberry32(seed) == [seed |-> seed, calls |-> 0]

\* one invocation rng(): the closure afterwards and the unsigned 32-bit
\* numerator of the returned value (the value is numerator / 2^32)
\* an addition that drops the carry out of the low half
NextSeedNoCarry(seed) == Word(seed.hi + Gamma.hi, (seed.lo + Gamma.lo) % W16)

\* line 105: seed += 0x6d2b79f5, on a number
NextSeed(seed) ==
  Word(seed.hi + Gamma.hi + ((seed.lo + Gamma.lo) \div W16), (seed.lo + Gamma.lo) % W16)

\* line 106: t = Math.imul(t ^ (t >>> 15), t | 1)
Mix15(t) == Imul(Xor32(t, Shr32(t, 32768)), OrSmall(t, 1))

\* line 107: t ^= t + Math.imul(t ^ (t >>> 7), t | 61)
Mix7(t) == Xor32(t, Add32(t, Imul(Xor32(t, Shr32(t, 128)), OrSmall(t, 61))))

\* line 108: (t ^ (t >>> 14)) >>> 0
Mix14(t) == Xor32(t, Shr32(t, 16384))

\* the closure after an invocation that left seed at s, and the value
RngResult(rng, s) ==
  [rng |-> [seed |-> s, calls |-> rng.calls + 1],
   value |-> Mix14(Mix7(Mix15(ToUint32(s))))]

RngCall(rng) == RngResult(rng, NextSeed(rng.seed))

\* Math.floor(v * m) for v = u / 2^32 and a small positive integer m
FloorScaled(u, m) == (u.hi * m + ((u.lo * m) \div W16)) \div W16

\* ------------------------------------------------------------------------
\* hashString                                               lines 112-120
\* ------------------------------------------------------------------------
RECURSIVE HashLoop(_, _, _)
HashLoop(str, i, hash) ==
  IF i > Len(str) THEN hash
  ELSE HashLoop(str, i + 1, Add32(Sub32(Shl5(hash), hash), Word(0, str[i])))

\* a hash returned without Math.abs
AbsNone(w) == w

\* Math.abs of a signed 32-bit value held as its two's complement
Abs32(w) == IF w.hi >= 32768 THEN Word(W16 - w.hi - (IF w.lo > 0 THEN 1 ELSE 0), (W16 - w.lo) % W16) ELSE w

hashString(str) == Abs32(HashLoop(str, 1, Word(0, 0)))

\* ------------------------------------------------------------------------
\* Array helpers
\* ------------------------------------------------------------------------
Min(a, b) == IF a < b THEN a ELSE b

Max(a, b) == IF a > b THEN a ELSE b

\* Array.prototype.slice(start, end) with its handling of negative and
\* out-of-range indices (0-based, end exclusive)
Slice(arr, start, end) ==
  LET len == Len(arr)
      from == IF start < 0 THEN Max(len + start, 0) ELSE Min(start, len)
      to == IF end < 0 THEN Max(len + end, 0) ELSE Min(end, len)
  IN IF from < to THEN SubSeq(arr, from + 1, to) ELSE <<>>

\* an exchange that writes position i only
SwapOverwrite(arr, i, j) == [arr EXCEPT ![i + 1] = arr[j + 1]]

\* arr with the elements at 0-based positions i and j exchanged
Swap(arr, i, j) == [arr EXCEPT ![i + 1] = arr[j + 1], ![j + 1] = arr[i + 1]]

\* ------------------------------------------------------------------------
\* seededShuffle                                            lines 122-129
\* ------------------------------------------------------------------------
\* the index drawn for position i: Math.floor(rng() * (i + 1))
ShuffleIndex(value, i) == FloorScaled(value, i + 1)

RECURSIVE ShuffleLoop(_, _, _)
\* lines 125-126: one iteration, draw being the outcome of rng()
ShuffleStep(result, i, draw) ==
  ShuffleLoop(Swap(result, i, ShuffleIndex(draw.value, i)), draw.rng, i - 1)

\* a loop that stops before position 1
ShuffleLoopShort(result, rng, i) ==
  IF i > 1 THEN ShuffleStep(result, i, RngCall(rng))
  ELSE [result |-> result, rng |-> rng]

\* lines 124-127: the loop from position i down to 1
ShuffleLoop(result, rng, i) ==
  IF i > 0 THEN ShuffleStep(result, i, RngCall(rng))
  ELSE [result |-> result, rng |-> rng]

\* the shuffled copy and the generator after the draws
seededShuffle(array, rng) == ShuffleLoop(array, rng, Len(array) - 1)

\* ------------------------------------------------------------------------
\* generateCard                                             lines 194-267
\* ------------------------------------------------------------------------
Cell(relative, phrase, checked) == [relative |-> relative, phrase |-> phrase, checked |-> checked]

EmptyPhrase == "(empty)"

\* a filter that keeps every relative
HasPhrasesAlways(r) == Len(r.phrases) >= 0

\* lines 205-207
HasPhrases(r) == Len(r.phrases) > 0

\* lines 225-228: the phrases taken from one shuffled phrase list
SelectPhrases(shuffledPhrases, phrasesPerRelative) ==
  Slice(shuffledPhrases, 0, Min(phrasesPerRelative, Len(shuffledPhrases)))

\* lines 223-237: one phrase shuffle per selected relative, in order, on
\* the same generator; picked[k] are the phrases selected for relative k
RECURSIVE BuildCells(_, _, _, _, _, _)
\* lines 230-236: the cells pushed for one relative
RowCells(relative, selectedPhrases) ==
  [n \in 1..Len(selectedPhrases) |-> Cell(relative.name, selectedPhrases[n], FALSE)]

BuildSelected(selectedRelatives, phrasesPerRelative, k, rng, cells, picked, selectedPhrases) ==
  BuildCells(selectedRelatives, phrasesPerRelative, k + 1, rng,
             cells \o RowCells(selectedRelatives[k], selectedPhrases),
             Append(picked, selectedPhrases))

\* lines 224-228: shuffled is the outcome of seededShuffle(relative.phrases, rng)
BuildShuffled(selectedRelatives, phrasesPerRelative, k, cells, picked, shuffled) ==
  BuildSelected(selectedRelatives, phrasesPerRelative, k, shuffled.rng, cells, picked,
                SelectPhrases(shuffled.result, phrasesPerRelative))

BuildCells(selectedRelatives, phrasesPerRelative, k, rng, cells, picked) ==
  IF k > Len(selectedRelatives) THEN [cells |-> cells, rng |-> rng, picked |-> picked]
  ELSE BuildShuffled(selectedRelatives, phrasesPerRelative, k, cells, picked,
                     seededShuffle(selectedRelatives[k].phrases, rng))

\* line 248: the cells collected for a relative, starting at cellIndex
\* (0-based), are those that follow and carry its name
RECURSIVE CollectEnd(_, _, _)
CollectEnd(cells, cellIndex, name) ==
  IF cellIndex < Len(cells) /\ cells[cellIndex + 1].relative = name
  THEN CollectEnd(cells, cellIndex + 1, name)
  ELSE cellIndex

\* lines 243-264: the padding loop
RECURSIVE PadRows(_, _, _, _, _, _)
PadRows(selectedRelatives, cells, cols, k, cellIndex, paddedCells) ==
  IF k > Len(selectedRelatives) THEN paddedCells
  ELSE LET relative == selectedRelatives[k]
           stop == CollectEnd(cells, cellIndex, relative.name)
           phrasesForRelative == SubSeq(cells, cellIndex + 1, stop)
           padding == [i \in 1..Max(cols - Len(phrasesForRelative), 0) |->
                         Cell(relative.name, EmptyPhrase, FALSE)]
       IN PadRows(selectedRelatives, cells, cols, k + 1, stop,
                  paddedCells \o phrasesForRelative \o padding)

\* lines 204-266: the body of generateCard once its generator rng exists;
\* the returned card, the generator as the run leaves it, the selected
\* relatives and the phrases selected for each of them
\* lines 239-266: built is the outcome of the build loop
GenerateBuilt(selectedRelatives, phrasesPerRelative, built) ==
  [card |-> [cells |-> PadRows(selectedRelatives, built.cells, phrasesPerRelative, 1, 0, <<>>),
             rows |-> Len(selectedRelatives), cols |-> phrasesPerRelative],
   rng |-> built.rng, selected |-> selectedRelatives, picked |-> built.picked]

\* lines 220-237
GenerateSelected(selectedRelatives, rng, phrasesPerRelative) ==
  GenerateBuilt(selectedRelatives, phrasesPerRelative,
                BuildCells(selectedRelatives, phrasesPerRelative, 1, rng, <<>>, <<>>))

\* a build loop that is given a generator of its own, made from the seed
\* the relatives shuffle has left
GenerateShuffledReseeded(shuffled, maxRelatives, phrasesPerRelative) ==
  GenerateSelected(Slice(shuffled.result, 0, Min(maxRelatives, Len(shuffled.result))),
                   mulberry32(shuffled.rng.seed), phrasesPerRelative)

\* lines 215-218: shuffled is the outcome of seededShuffle(validRelatives, rng)
GenerateShuffled(shuffled, maxRelatives, phrasesPerRelative) ==
  GenerateSelected(Slice(shuffled.result, 0, Min(maxRelatives, Len(shuffled.result))),
                   shuffled.rng, phrasesPerRelative)

\* lines 209-214
GenerateValid(rng, validRelatives, maxRelatives, phrasesPerRelative) ==
  IF Len(validRelatives) = 0
  THEN [card |-> [cells |-> <<>>, rows |-> 0, cols |-> 0], rng |-> rng,
        selected |-> <<>>, picked |-> <<>>]
  ELSE GenerateShuffled(seededShuffle(validRelatives, rng), maxRelatives, phrasesPerRelative)

GenerateWith(rng, relatives, maxRelatives, phrasesPerRelative) ==
  GenerateValid(rng, SelectSeq(relatives, HasPhrases), maxRelatives, phrasesPerRelative)

\* lines 201-202: one run of generateCard on a generator made for this run
GenerateRun(eventId, playerName, relatives, maxRelatives, phrasesPerRelative) ==
  GenerateWith(mulberry32(hashString(eventId \o <<58>> \o playerName)),
               relatives, maxRelatives, phrasesPerRelative)

generateCard(eventId, playerName, relatives, maxRelatives, phrasesPerRelative) ==
  GenerateRun(eventId, playerName, relatives, maxRelatives, phrasesPerRelative).card

\* ------------------------------------------------------------------------
\* checkBingo                                               lines 273-327
\* ------------------------------------------------------------------------
\* lines 277-280: row `row` (0-based) of the grid
GridRow(cells, cols, row) == Slice(cells, row * cols, (row + 1) * cols)

\* grid[row][col].checked (0-based)
GridChecked(cells, cols, row, col) == GridRow(cells, cols, row)[col + 1].checked

\* lines 283-287
RowWin(cells, rows, cols) ==
  \E row \in 0..(rows - 1) :
    LET r == GridRow(cells, cols, row) IN \A n \in 1..Len(r) : r[n].checked

\* lines 290-299
ColumnWin(cells, rows, cols) ==
  \E col \in 0..(cols - 1) : \A row \in 0..(rows - 1) : GridChecked(cells, cols, row, col)

\* diagonals inspected whenever the grid is at least as wide as it is high
DiagonalsExistWide(rows, cols) == rows <= cols

\* line 302: diagonals are inspected only on a square grid
DiagonalsExist(rows, cols) == rows = cols

\* only the main diagonal is inspected
DiagonalWinMainOnly(cells, rows, cols) ==
  LET size == rows
  IN \A i \in 0..(size - 1) : GridChecked(cells, cols, i, i)

\* lines 303-323
DiagonalWin(cells, rows, cols) ==
  LET size == rows
  IN \/ \A i \in 0..(size - 1) : GridChecked(cells, cols, i, i)
     \/ \A i \in 0..(size - 1) : GridChecked(cells, cols, i, size - 1 - i)

\* a detector without the guard of line 274
checkBingoUnguarded(cells, rows, cols) ==
  \/ RowWin(cells, rows, cols)
  \/ ColumnWin(cells, rows, cols)
  \/ (DiagonalsExist(rows, cols) /\ DiagonalWin(cells, rows, cols))

checkBingo(cells, rows, cols) ==
  IF rows = 0 \/ cols = 0 THEN FALSE
  ELSE \/ RowWin(cells, rows, cols)
       \/ ColumnWin(cells, rows, cols)
       \/ (DiagonalsExist(rows, cols) /\ DiagonalWin(cells, rows, cols))

\* ------------------------------------------------------------------------
\* Text input: String.prototype.trim and parseInt on code-unit sequences
\* ------------------------------------------------------------------------
\* code units used by the inputs: space, '+', '-', '0'..'9'
IsSpace(c) == c = 32

IsDigit(c) == c >= 48 /\ c <= 57

RECURSIVE TrimStart(_)
TrimStart(str) ==
  IF Len(str) > 0 /\ IsSpace(Head(str)) THEN TrimStart(Tail(str)) ELSE str

RECURSIVE TrimEnd(_)
TrimEnd(str) ==
  IF Len(str) > 0 /\ IsSpace(str[Len(str)]) THEN TrimEnd(SubSeq(str, 1, Len(str) - 1)) ELSE str

\* value.trim()
Trim(str) == TrimEnd(TrimStart(str))

NaN == [nan |-> TRUE]

RECURSIVE ParseDigits(_, _, _)
ParseDigits(str, i, acc) ==
  IF i <= Len(str) /\ IsDigit(str[i]) THEN ParseDigits(str, i + 1, acc * 10 + (str[i] - 48)) ELSE acc

\* parseInt(str): leading white space, an optional sign, then the longest
\* run of decimal digits; NaN when there is no digit
ParseInt(str) ==
  LET t == TrimStart(str)
      signed == Len(t) > 0 /\ (t[1] = 45 \/ t[1] = 43)
      first == IF signed THEN 2 ELSE 1
  IN IF first > Len(t) \/ ~IsDigit(t[first]) THEN NaN
     ELSE IF signed /\ t[1] = 45 THEN [nan |-> FALSE, n |-> 0 - ParseDigits(t, first, 0)]
     ELSE [nan |-> FALSE, n |-> ParseDigits(t, first, 0)]

\* the default of both per-card limits            lines 500-501, 634-635
DefaultLimit == 5

\* parseInt(value) || 5: NaN and 0 are falsy
ParseLimit(str) ==
  LET v == ParseInt(str)
  IN IF v.nan \/ v.n = 0 THEN DefaultLimit ELSE v.n

\* n || 5 for a number n
OrDefault(n) == IF n = 0 THEN DefaultLimit ELSE n

\* ------------------------------------------------------------------------
\* Application state                                        lines 135-182
\* ------------------------------------------------------------------------
VARIABLES
  relatives,     \* state.relatives
  eventConfig,   \* state.eventConfig, or Null
  cardState,     \* state.cardState, or Null
  storage,       \* localStorage: key -> stored item, Null when absent
  screen,        \* the one screen that is not hidden
  bingoVisible,  \* #bingo-message does not carry the class "hidden"
  lastAction     \* the handler that ran last and what it did

uiVars == <<relatives, eventConfig, cardState, storage, screen, bingoVisible, lastAction>>

fnVars == <<call, ret, genRng>>

vars == <<relatives, eventConfig, cardState, storage, screen, bingoVisible, lastAction,
          call, ret, genRng>>

\* lines 135-139
STORAGE_KEYS ==
  [RELATIVES |-> "pelican_relatives",
   EVENT_CONFIG |-> "pelican_event_config",
   CARD_STATE |-> "pelican_card_state"]

StorageKeySet == {STORAGE_KEYS.RELATIVES, STORAGE_KEYS.EVENT_CONFIG, STORAGE_KEYS.CARD_STATE}

\* JSON.stringify(value): the stored text, represented by the value it
\* denotes (strings, integers, booleans, arrays and plain objects only)
JSONstringify(value) == [json |-> value]

\* a stored text that is not JSON
Corrupt == [corrupt |-> TRUE]

\* JSON.parse(item) throws on such an item
Unparsable(item) == item = Corrupt

JSONparse(item) == item.json

\* localStorage.setItem / removeItem
SetItem(store, key, value) == [store EXCEPT ![key] = JSONstringify(value)]

RemoveItem(store, key) == [store EXCEPT ![key] = Null]

\* a loadState whose catch block keeps what was assigned before the failure
\* and gives each unparsable item its own default
loadStatePartial(store) ==
  LET relativesData == store[STORAGE_KEYS.RELATIVES]
      eventData == store[STORAGE_KEYS.EVENT_CONFIG]
      cardData == store[STORAGE_KEYS.CARD_STATE]
  IN [relatives |-> IF relativesData # Null /\ ~Unparsable(relativesData)
                    THEN JSONparse(relativesData) ELSE <<>>,
      eventConfig |-> IF eventData # Null /\ ~Unparsable(eventData)
                      THEN JSONparse(eventData) ELSE Null,
      cardState |-> IF cardData # Null /\ ~Unparsable(cardData)
                    THEN JSONparse(cardData) ELSE Null]

\* lines 151-167: loadState(); any parse failure resets all three fields
loadState(store) ==
  LET relativesData == store[STORAGE_KEYS.RELATIVES]
      eventData == store[STORAGE_KEYS.EVENT_CONFIG]
      cardData == store[STORAGE_KEYS.CARD_STATE]
  IN IF Unparsable(relativesData) \/ Unparsable(eventData) \/ Unparsable(cardData)
     THEN [relatives |-> <<>>, eventConfig |-> Null, cardState |-> Null]
     ELSE [relatives |-> IF relativesData # Null THEN JSONparse(relativesData) ELSE <<>>,
           eventConfig |-> IF eventData # Null THEN JSONparse(eventData) ELSE Null,
           cardState |-> IF cardData # Null THEN JSONparse(cardData) ELSE Null]

\* lines 380-408: renderBingoCard() shows or hides the bingo message; it
\* returns early when no card or no event configuration is held
renderBingoCard(card, config, visible) ==
  IF card = Null \/ config = Null THEN visible
  ELSE checkBingo(card.cells, card.rows, card.cols)

\* the record kept in lastAction: the handler, whether it called
\* generateCard, whether it refused (alert, declined confirm, blank input)
Did(name, generated, refused) == [name |-> name, generated |-> generated, refused |-> refused]

\* ------------------------------------------------------------------------
\* Inputs of the user interface
\* ------------------------------------------------------------------------
\* bounds of the relatives list edited on the config screen
MaxUiRelatives == 2

MaxUiPhrases == 1

\* largest number of cells checked at the same time
MaxChecked == 2

\* names typed into #new-relative-name (after trim, not blank)
RelativeNameInputs == {"A"}

\* phrases typed into a .phrase-input (after trim, not blank)
PhraseInputs == {"p"}

\* texts typed into #event-id: "", " e"
EventIdInputs == {<<>>, <<32, 101>>}

\* texts typed into #player-name: " ", "a"
PlayerNameInputs == {<<32>>, <<97>>}

\* texts typed into #max-relatives and #phrases-per-relative: "", "1", "-1"
LimitInputs == {<<>>, <<49>>, <<45, 49>>}

\* payloads of a shared link that parseSharedLink (lines 464-486) accepts
ShareBlobs ==
  { [schema |-> 1,
     gameConfig |-> [relatives |-> << [name |-> "A", phrases |-> <<"p", "q">>] >>],
     eventConfig |-> [eventId |-> <<102>>, maxRelatives |-> 1, phrasesPerRelative |-> 2]],
    [schema |-> 1, gameConfig |-> Null, eventConfig |-> Null] }

\* ------------------------------------------------------------------------
\* Config screen handlers                                   lines 531-619
\* ------------------------------------------------------------------------
\* lines 531-540: add-relative-btn; a blank name is ignored
AddRelative(name) ==
  /\ screen = "config-screen"
  /\ Len(relatives) < MaxUiRelatives
  /\ name # ""
  /\ relatives' = Append(relatives, [name |-> name, phrases |-> <<>>])
  /\ storage' = SetItem(storage, STORAGE_KEYS.RELATIVES, relatives')
  /\ lastAction' = Did("add-relative", FALSE, FALSE)
  /\ UNCHANGED <<eventConfig, cardState, screen, bingoVisible>>
  /\ UNCHANGED fnVars

\* arr.splice(index, 1) for a 0-based index inside the array
Splice1(arr, index) == SubSeq(arr, 1, index) \o SubSeq(arr, index + 2, Len(arr))

\* lines 552-557: delete-relative
DeleteRelative(index) ==
  /\ screen = "config-screen"
  /\ index < Len(relatives)
  /\ relatives' = Splice1(relatives, index)
  /\ storage' = SetItem(storage, STORAGE_KEYS.RELATIVES, relatives')
  /\ lastAction' = Did("delete-relative", FALSE, FALSE)
  /\ UNCHANGED <<eventConfig, cardState, screen, bingoVisible>>
  /\ UNCHANGED fnVars

\* lines 559-565: delete-phrase
DeletePhrase(relIndex, phraseIndex) ==
  /\ screen = "config-screen"
  /\ relIndex < Len(relatives)
  /\ phraseIndex < Len(relatives[relIndex + 1].phrases)
  /\ relatives' = [relatives EXCEPT ![relIndex + 1].phrases = Splice1(@, phraseIndex)]
  /\ storage' = SetItem(storage, STORAGE_KEYS.RELATIVES, relatives')
  /\ lastAction' = Did("delete-phrase", FALSE, FALSE)
  /\ UNCHANGED <<eventConfig, cardState, screen, bingoVisible>>
  /\ UNCHANGED fnVars

\* lines 567-578: add-phrase; a blank phrase is ignored
AddPhrase(relIndex, phrase) ==
  /\ screen = "config-screen"
  /\ relIndex < Len(relatives)
  /\ Len(relatives[relIndex + 1].phrases) < MaxUiPhrases
  /\ phrase # ""
  /\ relatives' = [relatives EXCEPT ![relIndex + 1].phrases = Append(@, phrase)]
  /\ storage' = SetItem(storage, STORAGE_KEYS.RELATIVES, relatives')
  /\ lastAction' = Did("add-phrase", FALSE, FALSE)
  /\ UNCHANGED <<eventConfig, cardState, screen, bingoVisible>>
  /\ UNCHANGED fnVars

\* lines 591-619: to-event-setup-btn; an alert leaves the screen as it is
ToEventSetup ==
  /\ screen = "config-screen"
  /\ LET refused == Len(relatives) = 0 \/ ~(\E n \in 1..Len(relatives) : HasPhrases(relatives[n]))
     IN /\ screen' = IF refused THEN screen ELSE "event-setup-screen"
        /\ lastAction' = Did("to-event-setup", FALSE, refused)
  /\ UNCHANGED <<relatives, eventConfig, cardState, storage, bingoVisible>>
  /\ UNCHANGED fnVars

\* ------------------------------------------------------------------------
\* Event setup screen handlers                              lines 622-684
\* ------------------------------------------------------------------------
\* lines 622-624: back-to-config-btn
BackToConfig ==
  /\ screen = "event-setup-screen"
  /\ screen' = "config-screen"
  /\ lastAction' = Did("back-to-config", FALSE, FALSE)
  /\ UNCHANGED <<relatives, eventConfig, cardState, storage, bingoVisible>>
  /\ UNCHANGED fnVars

\* a cache check that leaves out phrasesPerRelative
CardMatchesThreeFields(card, eventId, playerName, maxRelatives, phrasesPerRelative) ==
  /\ card # Null
  /\ card.eventId = eventId
  /\ card.playerName = playerName
  /\ card.maxRelatives = maxRelatives

\* lines 655-661: the held card was generated for the entered configuration
CardMatches(card, eventId, playerName, maxRelatives, phrasesPerRelative) ==
  /\ card # Null
  /\ card.eventId = eventId
  /\ card.playerName = playerName
  /\ card.maxRelatives = maxRelatives
  /\ card.phrasesPerRelative = phrasesPerRelative

\* lines 672-678
NewCardState(card, eventId, playerName, maxRelatives, phrasesPerRelative) ==
  [cells |-> card.cells, rows |-> card.rows, cols |-> card.cols,
   eventId |-> eventId, playerName |-> playerName,
   maxRelatives |-> maxRelatives, phrasesPerRelative |-> phrasesPerRelative]

\* lines 626-684: start-game-btn with the texts of the four inputs
StartGame(eventIdText, playerNameText, maxRelativesText, phrasesText) ==
  /\ screen = "event-setup-screen"
  /\ LET eventId == Trim(eventIdText)
         playerName == Trim(playerNameText)
         maxRelatives == ParseLimit(maxRelativesText)
         phrasesPerRelative == ParseLimit(phrasesText)
     IN IF eventId = <<>> \/ playerName = <<>>
        THEN /\ lastAction' = Did("start-game", FALSE, TRUE)
             /\ UNCHANGED <<eventConfig, cardState, storage, screen, bingoVisible>>
        ELSE LET config == [eventId |-> eventId, playerName |-> playerName,
                            maxRelatives |-> maxRelatives,
                            phrasesPerRelative |-> phrasesPerRelative]
                 saved == SetItem(storage, STORAGE_KEYS.EVENT_CONFIG, config)
                 useExisting == CardMatches(cardState, eventId, playerName,
                                            maxRelatives, phrasesPerRelative)
             IN /\ eventConfig' = config
                /\ IF useExisting
                   THEN /\ cardState' = cardState
                        /\ storage' = saved
                   ELSE /\ cardState' = NewCardState(
                               generateCard(eventId, playerName, relatives,
                                            maxRelatives, phrasesPerRelative),
                               eventId, playerName, maxRelatives, phrasesPerRelative)
                        /\ storage' = SetItem(saved, STORAGE_KEYS.CARD_STATE, cardState')
                /\ bingoVisible' = renderBingoCard(cardState', eventConfig', bingoVisible)
                /\ screen' = "game-screen"
                /\ lastAction' = Did("start-game", ~useExisting, FALSE)
  /\ UNCHANGED relatives
  /\ UNCHANGED fnVars

\* ------------------------------------------------------------------------
\* Game screen handlers                                     lines 687-710
\* ------------------------------------------------------------------------
CheckedCount(cells) == Cardinality({n \in 1..Len(cells) : cells[n].checked})

\* lines 692: cells[index].checked = !cells[index].checked
FlipCell(cells, index) == [cells EXCEPT ![index + 1].checked = ~@]

\* a reset that flips every cell, as the click handler does for one
UncheckAllInvert(cells) == [n \in 1..Len(cells) |-> [cells[n] EXCEPT !.checked = ~@]]

\* line 700: cells.forEach((cell) => (cell.checked = false))
UncheckAll(cells) == [n \in 1..Len(cells) |-> [cells[n] EXCEPT !.checked = FALSE]]

\* a click handler that forgets saveCardState()
ToggleCellUnsaved(index) ==
  /\ screen = "game-screen"
  /\ cardState # Null
  /\ index < Len(cardState.cells)
  /\ cardState.cells[index + 1].checked \/ CheckedCount(cardState.cells) < MaxChecked
  /\ cardState' = [cardState EXCEPT !.cells = FlipCell(@, index)]
  /\ bingoVisible' = renderBingoCard(cardState', eventConfig, bingoVisible)
  /\ lastAction' = Did("toggle", FALSE, FALSE)
  /\ UNCHANGED <<relatives, eventConfig, screen, storage>>
  /\ UNCHANGED fnVars

\* lines 687-696: click on the rendered cell with data-index = index
ToggleCell(index) ==
  /\ screen = "game-screen"
  /\ cardState # Null
  /\ index < Len(cardState.cells)
  /\ cardState.cells[index + 1].checked \/ CheckedCount(cardState.cells) < MaxChecked
  /\ cardState' = [cardState EXCEPT !.cells = FlipCell(@, index)]
  /\ storage' = SetItem(storage, STORAGE_KEYS.CARD_STATE, cardState')
  /\ bingoVisible' = renderBingoCard(cardState', eventConfig, bingoVisible)
  /\ lastAction' = Did("toggle", FALSE, FALSE)
  /\ UNCHANGED <<relatives, eventConfig, screen>>
  /\ UNCHANGED fnVars

\* a reset handler that forgets renderBingoCard()
ResetCardUnrendered ==
  /\ screen = "game-screen"
  /\ cardState # Null
  /\ cardState' = [cardState EXCEPT !.cells = UncheckAll(@)]
  /\ storage' = SetItem(storage, STORAGE_KEYS.CARD_STATE, cardState')
  /\ lastAction' = Did("reset", FALSE, FALSE)
  /\ UNCHANGED <<relatives, eventConfig, screen, bingoVisible>>
  /\ UNCHANGED fnVars

\* lines 698-704: reset-card-btn, confirm() answered with OK; a declined
\* confirm() does nothing
ResetCard ==
  /\ screen = "game-screen"
  /\ cardState # Null
  /\ cardState' = [cardState EXCEPT !.cells = UncheckAll(@)]
  /\ storage' = SetItem(storage, STORAGE_KEYS.CARD_STATE, cardState')
  /\ bingoVisible' = renderBingoCard(cardState', eventConfig, bingoVisible)
  /\ lastAction' = Did("reset", FALSE, FALSE)
  /\ UNCHANGED <<relatives, eventConfig, screen>>
  /\ UNCHANGED fnVars

\* a new-game handler that forgets localStorage.removeItem
NewGameKeepsStored ==
  /\ screen = "game-screen"
  /\ cardState' = Null
  /\ screen' = "event-setup-screen"
  /\ lastAction' = Did("new-game", FALSE, FALSE)
  /\ UNCHANGED <<relatives, eventConfig, storage, bingoVisible>>
  /\ UNCHANGED fnVars

\* lines 706-710: new-game-btn
NewGame ==
  /\ screen = "game-screen"
  /\ cardState' = Null
  /\ storage' = RemoveItem(storage, STORAGE_KEYS.CARD_STATE)
  /\ screen' = "event-setup-screen"
  /\ lastAction' = Did("new-game", FALSE, FALSE)
  /\ UNCHANGED <<relatives, eventConfig, bingoVisible>>
  /\ UNCHANGED fnVars

\* ------------------------------------------------------------------------
\* Page load                                                lines 488-514, 751-788
\* ------------------------------------------------------------------------
\* a loadSharedConfig without the statements of lines 507-508
loadSharedConfigKeepsCard(loaded, store, data) ==
  LET takeRelatives == data.gameConfig # Null
      takeEvent == data.eventConfig # Null
      newRelatives == IF takeRelatives THEN data.gameConfig.relatives ELSE loaded.relatives
      newEvent == IF takeEvent
                  THEN [eventId |-> data.eventConfig.eventId, playerName |-> <<>>,
                        maxRelatives |-> OrDefault(data.eventConfig.maxRelatives),
                        phrasesPerRelative |-> OrDefault(data.eventConfig.phrasesPerRelative)]
                  ELSE loaded.eventConfig
      store1 == IF takeRelatives THEN SetItem(store, STORAGE_KEYS.RELATIVES, newRelatives) ELSE store
      store2 == IF takeEvent THEN SetItem(store1, STORAGE_KEYS.EVENT_CONFIG, newEvent) ELSE store1
  IN [relatives |-> newRelatives, eventConfig |-> newEvent, cardState |-> loaded.cardState,
      storage |-> store2]

\* lines 488-514: loadSharedConfig(data) applied to the loaded state
loadSharedConfig(loaded, store, data) ==
  LET takeRelatives == data.gameConfig # Null
      takeEvent == data.eventConfig # Null
      newRelatives == IF takeRelatives THEN data.gameConfig.relatives ELSE loaded.relatives
      newEvent == IF takeEvent
                  THEN [eventId |-> data.eventConfig.eventId, playerName |-> <<>>,
                        maxRelatives |-> OrDefault(data.eventConfig.maxRelatives),
                        phrasesPerRelative |-> OrDefault(data.eventConfig.phrasesPerRelative)]
                  ELSE loaded.eventConfig
      store1 == IF takeRelatives THEN SetItem(store, STORAGE_KEYS.RELATIVES, newRelatives) ELSE store
      store2 == IF takeEvent THEN SetItem(store1, STORAGE_KEYS.EVENT_CONFIG, newEvent) ELSE store1
  IN [relatives |-> newRelatives, eventConfig |-> newEvent, cardState |-> Null,
      storage |-> RemoveItem(store2, STORAGE_KEYS.CARD_STATE)]

\* the state of a freshly loaded document before init() runs: the module
\* state of lines 145-149, the bingo message hidden
FreshBingoVisible == FALSE

\* lines 751-788: init() on (re)loading the page; sharedData is the result
\* of parseSharedLink(), Null without a usable "#pelican=" hash
PageLoad(sharedData) ==
  LET loaded == loadState(storage)
      after == IF sharedData # Null
               THEN loadSharedConfig(loaded, storage, sharedData)
               ELSE [relatives |-> loaded.relatives, eventConfig |-> loaded.eventConfig,
                     cardState |-> loaded.cardState, storage |-> storage]
      resume == after.cardState # Null /\ after.eventConfig # Null
  IN /\ relatives' = after.relatives
     /\ eventConfig' = after.eventConfig
     /\ cardState' = after.cardState
     /\ storage' = after.storage
     /\ screen' = IF sharedData # Null THEN "event-setup-screen"
                  ELSE IF resume THEN "game-screen" ELSE "config-screen"
     /\ bingoVisible' = IF sharedData = Null /\ resume
                        THEN renderBingoCard(after.cardState, after.eventConfig, FreshBingoVisible)
                        ELSE FreshBingoVisible
     /\ lastAction' = Did(IF sharedData # Null THEN "init-shared" ELSE "init", FALSE, FALSE)
     /\ UNCHANGED fnVars

\* the browser or the user removes one stored item (clearing site data,
\* storage eviction); the page itself is not involved
EnvRemoveItem(key) ==
  /\ storage[key] # Null
  /\ storage' = RemoveItem(storage, key)
  /\ lastAction' = Did("env-remove-item", FALSE, FALSE)
  /\ UNCHANGED <<relatives, eventConfig, cardState, screen, bingoVisible>>
  /\ UNCHANGED fnVars

\* ------------------------------------------------------------------------
\* The application as a state machine
\* ------------------------------------------------------------------------
FnIdle == call = Null /\ ret = Null /\ genRng = Null

\* a first visit: empty localStorage, init() has run without a shared link
Init ==
  /\ relatives = <<>>
  /\ eventConfig = Null
  /\ cardState = Null
  /\ storage = [k \in StorageKeySet |-> Null]
  /\ screen = "config-screen"
  /\ bingoVisible = FreshBingoVisible
  /\ lastAction = Did("init", FALSE, FALSE)
  /\ FnIdle

Next ==
  \/ \E name \in RelativeNameInputs : AddRelative(name)
  \/ \E index \in 0..(MaxUiRelatives - 1) : DeleteRelative(index)
  \/ \E relIndex \in 0..(MaxUiRelatives - 1), phraseIndex \in 0..(MaxUiPhrases - 1) :
       DeletePhrase(relIndex, phraseIndex)
  \/ \E relIndex \in 0..(MaxUiRelatives - 1), phrase \in PhraseInputs : AddPhrase(relIndex, phrase)
  \/ ToEventSetup
  \/ BackToConfig
  \/ \E e \in EventIdInputs, p \in PlayerNameInputs, m \in LimitInputs, n \in LimitInputs :
       StartGame(e, p, m, n)
  \/ \E index \in 0..(MaxUiRelatives * DefaultLimit * 2) : ToggleCell(index)
  \/ ResetCard
  \/ NewGame
  \/ \E sharedData \in ShareBlobs \cup {Null} : PageLoad(sharedData)

Spec == Init /\ [][Next]_vars

\* ------------------------------------------------------------------------
\* The application with an environment that may remove stored items
\* ------------------------------------------------------------------------
\* relatives configured in an earlier visit
EnvRelativeLists ==
  { << [name |-> "A", phrases |-> <<"p">>] >>,
    << [name |-> "A", phrases |-> <<"p", "q">>], [name |-> "B", phrases |-> <<"r">>] >> }

\* a return visit: the relatives are stored, init() has run without a
\* shared link and shows the config screen
InitEnv ==
  /\ relatives \in EnvRelativeLists
  /\ eventConfig = Null
  /\ cardState = Null
  /\ storage = [k \in StorageKeySet |->
                 IF k = STORAGE_KEYS.RELATIVES THEN JSONstringify(relatives) ELSE Null]
  /\ screen = "config-screen"
  /\ bingoVisible = FreshBingoVisible
  /\ lastAction = Did("init", FALSE, FALSE)
  /\ FnIdle

\* texts typed into #event-id: "", " e", "f"
EnvEventIdInputs == {<<>>, <<32, 101>>, <<102>>}

\* texts typed into #player-name: " ", "a", "b"
EnvPlayerNameInputs == {<<32>>, <<97>>, <<98>>}

\* texts typed into #max-relatives and #phrases-per-relative: "", "1"
EnvLimitInputs == {<<>>, <<49>>}

\* payloads of a shared link that parseSharedLink (lines 464-486) accepts:
\* one that carries neither a game nor an event configuration
EnvShareBlobs == { [schema |-> 1, gameConfig |-> Null, eventConfig |-> Null] }

NextEnv ==
  \/ ToEventSetup
  \/ BackToConfig
  \/ \E e \in EnvEventIdInputs, p \in EnvPlayerNameInputs,
        m \in EnvLimitInputs, n \in EnvLimitInputs :
       StartGame(e, p, m, n)
  \/ \E index \in 0..(MaxUiRelatives * DefaultLimit * 2) : ToggleCell(index)
  \/ ResetCard
  \/ NewGame
  \/ \E sharedData \in EnvShareBlobs \cup {Null} : PageLoad(sharedData)
  \/ \E key \in StorageKeySet : EnvRemoveItem(key)

SpecEnv == InitEnv /\ [][NextEnv]_vars

\* ------------------------------------------------------------------------
\* Direct calls of generateCard
\* ------------------------------------------------------------------------
UiIdle ==
  /\ relatives = <<>>
  /\ eventConfig = Null
  /\ cardState = Null
  /\ storage = [k \in StorageKeySet |-> Null]
  /\ screen = "config-screen"
  /\ bingoVisible = FreshBingoVisible
  /\ lastAction = Did("init", FALSE, FALSE)

\* relative names of the generator inputs; names may repeat in a list
GenNames == {"A", "B"}

\* the phrases of the relative at each position of a generator input:
\* all phrases of an input are different strings
PhrasePool ==
  << <<"a1", "a2", "a3", "a4">>, <<"b1", "b2", "b3", "b4">>, <<"c1", "c2", "c3", "c4">>,
     <<"d1", "d2", "d3", "d4">>, <<"e1", "e2", "e3", "e4">> >>

GenRelativeLists ==
  UNION { { [r \in 1..k |-> [name |-> f[r][1], phrases |-> SubSeq(PhrasePool[r], 1, f[r][2])]] :
              f \in [1..k -> GenNames \X (0..MaxPhrases)] } : k \in 0..MaxRelCount }

\* event id "e", player names "a" and "b"
GenEventIds == {<<101>>}

GenPlayerNames == {<<97>>, <<98>>}

InitGen ==
  /\ \E e \in GenEventIds, p \in GenPlayerNames, rs \in GenRelativeLists,
        m \in 0..MaxLimit, n \in 0..MaxLimit :
       call = [fn |-> "generateCard", eventId |-> e, playerName |-> p, relatives |-> rs,
               maxRelatives |-> m, phrasesPerRelative |-> n]
  /\ ret = Null
  /\ genRng = Null
  /\ UiIdle

\* what a run returns (value) and what it did on the way
RunResult(run) ==
  [value |-> run.card, selected |-> run.selected, picked |-> run.picked, rng |-> run.rng]

\* one call generateCard(...) with the arguments held in call
CallGenerateCard ==
  /\ call.fn = "generateCard"
  /\ ret' = RunResult(GenerateRun(call.eventId, call.playerName, call.relatives,
                                  call.maxRelatives, call.phrasesPerRelative))
  /\ genRng' = ret'.rng
  /\ UNCHANGED call
  /\ UNCHANGED uiVars

NextGen == CallGenerateCard

SpecGen == InitGen /\ [][NextGen]_vars

\* ------------------------------------------------------------------------
\* Direct calls of checkBingo
\* ------------------------------------------------------------------------
InitBingo ==
  /\ \E rows \in 1..MaxDim, cols \in 1..MaxDim :
       /\ call = [fn |-> "checkBingo", rows |-> rows, cols |-> cols,
                  cells |-> [n \in 1..(rows * cols) |-> Cell("A", "p", FALSE)]]
       /\ ret = [value |-> checkBingo(call.cells, rows, cols)]
  /\ genRng = Null
  /\ UiIdle

\* one cell of the grid changes and checkBingo is called on the result
CallCheckBingo(index) ==
  /\ call.fn = "checkBingo"
  /\ index < Len(call.cells)
  /\ call' = [call EXCEPT !.cells = FlipCell(@, index)]
  /\ ret' = [value |-> checkBingo(call'.cells, call.rows, call.cols)]
  /\ UNCHANGED genRng
  /\ UNCHANGED uiVars

NextBingo == \E index \in 0..(MaxDim * MaxDim - 1) : CallCheckBingo(index)

SpecBingo == InitBingo /\ [][NextBingo]_vars

\* ------------------------------------------------------------------------
\* Direct calls of seededShuffle
\* ------------------------------------------------------------------------
\* largest length of a shuffled array
MaxShuffleLen == 3

\* largest number of calls made with one array and one generator
MaxShuffleCalls == 2

\* elements of the shuffled arrays; an array may hold an element twice
ShuffleItems == {"x", "y", "z"}

ShuffleArrays == UNION { [1..n -> ShuffleItems] : n \in 0..MaxShuffleLen }

\* seeds of the generators handed to seededShuffle: hashString returns a
\* number of 0 .. 2^31
ShuffleSeeds == {Word(0, 0), Word(1, 2), Word(32767, 65535), Word(32768, 0)}

\* the caller holds an array and a generator; genRng is the generator
InitShuffle ==
  /\ \E array \in ShuffleArrays, seed \in ShuffleSeeds :
       /\ call = [fn |-> "seededShuffle", array |-> array, count |-> 0]
       /\ genRng = mulberry32(seed)
  /\ ret = Null
  /\ UiIdle

\* what a call returns (value), the generator it was given and the array
\* as the call leaves it: line 123 copies the array, lines 124-127 write to
\* the copy only
ShuffleReturn(array, rng, shuffled) ==
  [value |-> shuffled.result, given |-> rng, array |-> array]

\* one call seededShuffle(call.array, genRng)
CallSeededShuffle ==
  /\ call.fn = "seededShuffle"
  /\ call.count < MaxShuffleCalls
  /\ ret' = ShuffleReturn(call.array, genRng, seededShuffle(call.array, genRng))
  /\ genRng' = seededShuffle(call.array, genRng).rng
  /\ call' = [call EXCEPT !.array = ret'.array, !.count = @ + 1]
  /\ UNCHANGED uiVars

NextShuffle == CallSeededShuffle

SpecShuffle == InitShuffle /\ [][NextShuffle]_vars

\* ------------------------------------------------------------------------
\* Direct calls of hashString
\* ------------------------------------------------------------------------
\* largest length of a hashed string
MaxHashLen == 6

\* code units of the hashed strings: " ", "z" and U+FFFF
HashChars == {32, 122, 65535}

InitHash ==
  /\ call = [fn |-> "hashString", str |-> <<>>]
  /\ ret = [value |-> hashString(call.str)]
  /\ genRng = Null
  /\ UiIdle

\* hashString is called on the string extended by one code unit
CallHashString(c) ==
  /\ call.fn = "hashString"
  /\ Len(call.str) < MaxHashLen
  /\ call' = [call EXCEPT !.str = Append(@, c)]
  /\ ret' = [value |-> hashString(call'.str)]
  /\ UNCHANGED genRng
  /\ UNCHANGED uiVars

NextHash == \E c \in HashChars : CallHashString(c)

SpecHash == InitHash /\ [][NextHash]_vars

\* ------------------------------------------------------------------------
\* Direct calls of loadState on a localStorage that the environment changes
\* ------------------------------------------------------------------------
\* relatives, event configurations and cards stored by earlier visits
StoredRelatives ==
  { <<>>, << [name |-> "A", phrases |-> <<"p">>] >> }

StoredEventConfigs ==
  { [eventId |-> <<101>>, playerName |-> <<97>>, maxRelatives |-> 5, phrasesPerRelative |-> 1] }

StoredCards ==
  { [cells |-> << Cell("A", "p", c) >>, rows |-> 1, cols |-> 1,
     eventId |-> <<101>>, playerName |-> <<97>>, maxRelatives |-> 5, phrasesPerRelative |-> 1] :
      c \in BOOLEAN }

\* a freshly loaded document (lines 145-149) over a localStorage that holds
\* the items of an earlier visit
InitLoad ==
  /\ \E rs \in StoredRelatives, ec \in StoredEventConfigs, cs \in StoredCards :
       storage = [k \in StorageKeySet |->
                   IF k = STORAGE_KEYS.RELATIVES THEN JSONstringify(rs)
                   ELSE IF k = STORAGE_KEYS.EVENT_CONFIG THEN JSONstringify(ec)
                   ELSE JSONstringify(cs)]
  /\ relatives = <<>>
  /\ eventConfig = Null
  /\ cardState = Null
  /\ screen = "config-screen"
  /\ bingoVisible = FreshBingoVisible
  /\ lastAction = Did("init", FALSE, FALSE)
  /\ FnIdle

\* one stored item is replaced by a text that JSON.parse rejects (another
\* application of the origin, a truncated write, a user editing the item)
EnvCorruptItem(key) ==
  /\ storage[key] # Corrupt
  /\ storage' = [storage EXCEPT ![key] = Corrupt]
  /\ lastAction' = Did("env-corrupt-item", FALSE, FALSE)
  /\ UNCHANGED <<relatives, eventConfig, cardState, screen, bingoVisible>>
  /\ UNCHANGED fnVars

\* one call loadState()
CallLoadState ==
  /\ relatives' = loadState(storage).relatives
  /\ eventConfig' = loadState(storage).eventConfig
  /\ cardState' = loadState(storage).cardState
  /\ lastAction' = Did("loadState", FALSE, FALSE)
  /\ UNCHANGED <<storage, screen, bingoVisible>>
  /\ UNCHANGED fnVars

NextLoad ==
  \/ \E key \in StorageKeySet : EnvCorruptItem(key)
  \/ \E key \in StorageKeySet : EnvRemoveItem(key)
  \/ CallLoadState

SpecLoad == InitLoad /\ [][NextLoad]_vars

\* ------------------------------------------------------------------------
\* Two players of one event: generateCard called for each of them
\* ------------------------------------------------------------------------
\* player names "a", "b" and "g"
PairPlayerNames == {<<97>>, <<98>>, <<103>>}

\* the same event id, relatives and limits, and two different player names
InitPair ==
  /\ \E e \in GenEventIds, p \in PairPlayerNames, q \in PairPlayerNames,
        rs \in GenRelativeLists, m \in 0..MaxLimit, n \in 0..MaxLimit :
       /\ p[1] < q[1]
       /\ call = [fn |-> "generateCardPair", eventId |-> e, playerName |-> p,
                  otherName |-> q, relatives |-> rs,
                  maxRelatives |-> m, phrasesPerRelative |-> n]
  /\ ret = Null
  /\ genRng = Null
  /\ UiIdle

\* the results of the two runs
PairResult(first, second) == [first |-> RunResult(first), second |-> RunResult(second)]

\* generateCard(...) in the browser of each of the two players
CallGenerateCardPair ==
  /\ call.fn = "generateCardPair"
  /\ ret' = PairResult(GenerateRun(call.eventId, call.playerName, call.relatives,
                                   call.maxRelatives, call.phrasesPerRelative),
                       GenerateRun(call.eventId, call.otherName, call.relatives,
                                   call.maxRelatives, call.phrasesPerRelative))
  /\ genRng' = ret'.second.rng
  /\ UNCHANGED call
  /\ UNCHANGED uiVars

NextPair == CallGenerateCardPair

SpecPair == InitPair /\ [][NextPair]_vars

\* ------------------------------------------------------------------------
\* Direct calls of a generator made by mulberry32
\* ------------------------------------------------------------------------
\* largest number of invocations of one generator
MaxDraws == 8

\* seeds handed to mulberry32: hashString returns a number of 0 .. 2^31
RngSeeds ==
  {Word(h, l) : h \in {0, 1, 32767}, l \in {0, 1, 33420, 65535}} \cup {Word(32768, 0)}

\* rng = mulberry32(seed); genRng is the closure
InitRng ==
  /\ \E seed \in RngSeeds :
       /\ call = [fn |-> "mulberry32", seed |-> seed]
       /\ genRng = mulberry32(seed)
  /\ ret = Null
  /\ UiIdle

\* one invocation rng(); the value returned is ret.value / 2^32
CallRng ==
  /\ call.fn = "mulberry32"
  /\ genRng.calls < MaxDraws
  /\ ret' = [value |-> RngCall(genRng).value]
  /\ genRng' = RngCall(genRng).rng
  /\ UNCHANGED call
  /\ UNCHANGED uiVars

NextRng == CallRng

SpecRng == InitRng /\ [][NextRng]_vars

\* ------------------------------------------------------------------------
\* Direct calls of checkBingo with no rows or no columns
\* ------------------------------------------------------------------------
\* rows = 0 or cols = 0, and any number of cells up to MaxDim + 1
InitBingoZero ==
  /\ \E rows \in 0..MaxDim, cols \in 0..MaxDim, len \in 0..(MaxDim + 1) :
       /\ rows = 0 \/ cols = 0
       /\ call = [fn |-> "checkBingo", rows |-> rows, cols |-> cols,
                  cells |-> [n \in 1..len |-> Cell("A", "p", FALSE)]]
       /\ ret = [value |-> checkBingo(call.cells, rows, cols)]
  /\ genRng = Null
  /\ UiIdle

SpecBingoZero == InitBingoZero /\ [][NextBingo]_vars

\* ------------------------------------------------------------------------
\* One player, two pairs of limits: generateCard called with each of them
\* ------------------------------------------------------------------------
\* the same event id, player name and relatives; limits (k, P) and limits
\* (k', P') with 1 <= k <= k' and 1 <= P <= P'
InitLimits ==
  /\ \E e \in GenEventIds, p \in GenPlayerNames, rs \in GenRelativeLists,
        k \in 1..MaxLimit, kk \in 1..MaxLimit, P \in 1..MaxLimit, PP \in 1..MaxLimit :
       /\ k <= kk /\ P <= PP
       /\ call = [fn |-> "generateCardLimits", eventId |-> e, playerName |-> p,
                  relatives |-> rs, maxRelatives |-> k, phrasesPerRelative |-> P,
                  moreRelatives |-> kk, morePhrases |-> PP]
  /\ ret = Null
  /\ genRng = Null
  /\ UiIdle

\* generateCard(...) with the smaller limits (first) and with the larger
\* limits (second)
CallGenerateCardLimits ==
  /\ call.fn = "generateCardLimits"
  /\ ret' = PairResult(GenerateRun(call.eventId, call.playerName, call.relatives,
                                   call.maxRelatives, call.phrasesPerRelative),
                       GenerateRun(call.eventId, call.playerName, call.relatives,
                                   call.moreRelatives, call.morePhrases))
  /\ genRng' = ret'.second.rng
  /\ UNCHANGED call
  /\ UNCHANGED uiVars

NextLimits == CallGenerateCardLimits

SpecLimits == InitLimits /\ [][NextLimits]_vars

\* ------------------------------------------------------------------------
\* Properties of generateCard (checked under SpecGen)
\* ------------------------------------------------------------------------
GenCalled == call # Null /\ call.fn = "generateCard" /\ ret # Null

\* the number of relatives of the call that have a phrase
GenValidCount ==
  Cardinality({n \in 1..Len(call.relatives) : Len(call.relatives[n].phrases) > 0})

Range(seq) == {seq[n] : n \in 1..Len(seq)}

\* C3: with at least one valid relative and phrasesPerRelative >= 1 the card
\* has rows = min(maxRelatives, valid relatives), cols = phrasesPerRelative
\* and rows * cols cells, whether or not names repeat.
C3_Shape ==
  (GenCalled /\ GenValidCount >= 1 /\ call.phrasesPerRelative >= 1) =>
    /\ ret.value.rows = Min(call.maxRelatives, GenValidCount)
    /\ ret.value.cols = call.phrasesPerRelative
    /\ Len(ret.value.cells) = ret.value.rows * ret.value.cols

\* C4: row i has exactly phrasesPerRelative cells, all naming the i-th
\* selected relative and all unchecked; the first min(phrasesPerRelative,
\* its phrase count) hold its selected phrases in shuffled order, the
\* remaining ones hold "(empty)".
C4_RowLayout ==
  GenCalled =>
    LET card == ret.value
    IN \A i \in 1..card.rows :
         /\ Len(ret.picked[i]) = Min(call.phrasesPerRelative, Len(ret.selected[i].phrases))
         /\ \A c \in 1..card.cols :
              LET n == (i - 1) * card.cols + c
              IN /\ n <= Len(card.cells)
                 /\ card.cells[n].relative = ret.selected[i].name
                 /\ card.cells[n].checked = FALSE
                 /\ card.cells[n].phrase =
                      IF c <= Len(ret.picked[i]) THEN ret.picked[i][c] ELSE EmptyPhrase

\* C6: without any relative that has a phrase, the result is exactly
\* {cells: [], rows: 0, cols: 0}, whatever the two limits are.
C6_NoValidRelative ==
  (GenCalled /\ GenValidCount = 0) => ret.value = [cells |-> <<>>, rows |-> 0, cols |-> 0]

\* a call returned for a non-empty list of relatives without phrases and
\* non-zero limits
C6_Witness ==
  /\ GenCalled
  /\ Len(call.relatives) = 2 /\ GenValidCount = 0
  /\ call.maxRelatives = 2 /\ call.phrasesPerRelative = 2
  /\ ret.value.rows = 0

\* C7: every cell of row i that is not padding holds a phrase of the i-th
\* selected relative's own list, each of them at most once in the row, also
\* when relatives share a name.
C7_NoBorrowing ==
  GenCalled =>
    LET card == ret.value
    IN \A i \in 1..card.rows : \A c \in 1..card.cols :
         LET n == (i - 1) * card.cols + c
         IN (n <= Len(card.cells) /\ card.cells[n].phrase # EmptyPhrase) =>
              /\ card.cells[n].phrase \in Range(ret.selected[i].phrases)
              /\ \A d \in 1..card.cols :
                   LET m == (i - 1) * card.cols + d
                   IN (m <= Len(card.cells) /\ d # c) => card.cells[m].phrase # card.cells[n].phrase

\* ------------------------------------------------------------------------
\* Properties of checkBingo (checked under SpecBingo)
\* ------------------------------------------------------------------------
\* the cell at row r, column c (0-based) of the row-major grid is checked
CheckedAt(r, c) == call.cells[r * call.cols + c + 1].checked

FullRow == \E r \in 0..(call.rows - 1) : \A c \in 0..(call.cols - 1) : CheckedAt(r, c)

FullColumn == \E c \in 0..(call.cols - 1) : \A r \in 0..(call.rows - 1) : CheckedAt(r, c)

FullMainDiagonal == \A i \in 0..(call.rows - 1) : i < call.cols /\ CheckedAt(i, i)

FullAntiDiagonal ==
  \A i \in 0..(call.rows - 1) : call.rows - 1 - i < call.cols /\ CheckedAt(i, call.rows - 1 - i)

\* C2: for rows, cols >= 1 and rows * cols cells, checkBingo is true exactly
\* when a row is full, or a column is full, or the grid is square and its
\* main diagonal or its anti-diagonal is full.
C2_BingoIff ==
  ret.value <=>
    \/ FullRow
    \/ FullColumn
    \/ (call.rows = call.cols /\ (FullMainDiagonal \/ FullAntiDiagonal))

\* a square grid that wins by a diagonal only
C2_Witness ==
  /\ call.rows = 3 /\ call.cols = 3
  /\ ret.value
  /\ ~FullRow /\ ~FullColumn
  /\ FullAntiDiagonal

\* C5: on a grid that is not square checkBingo is true only by a full row
\* or a full column, never by a diagonal pattern.
C5_DiagonalGating ==
  (call.rows # call.cols) => (ret.value <=> (FullRow \/ FullColumn))

\* a 2 x 3 grid with (0,0), (1,1) and (0,2), (1,1) checked and nothing else
C5_Witness ==
  /\ call.rows = 2 /\ call.cols = 3
  /\ {n \in 1..6 : call.cells[n].checked} = {1, 3, 5}
  /\ ~ret.value

\* ------------------------------------------------------------------------
\* Properties of the user interface (checked under Spec and SpecEnv)
\* ------------------------------------------------------------------------
\* the item under the card-state key is the text of the card in memory, or
\* both are absent
CardPersisted ==
  storage[STORAGE_KEYS.CARD_STATE] =
    IF cardState = Null THEN Null ELSE JSONstringify(cardState)

\* a page load without a shared link while a game is shown
ReloadResumes ==
  (PageLoad(Null) /\ screen = "game-screen" /\ cardState # Null) =>
    /\ screen' = "game-screen"
    /\ cardState' = cardState

\* C8: after every UI action the card stored under the card-state key equals
\* the card in memory (or both are absent), and a page reload without a
\* shared link during a game shows the game screen again with the same
\* cells, rows, cols and checked flags.
C8_ProgressSurvivesReload == []CardPersisted /\ [][ReloadResumes]_vars

\* init() has resumed a game in which one cell is checked
C8_Witness ==
  /\ lastAction.name = "init"
  /\ screen = "game-screen"
  /\ cardState # Null
  /\ CheckedCount(cardState.cells) = 1

\* rows, cols, the number of cells and every relative and phrase stay
SameLayout ==
  /\ cardState'.rows = cardState.rows
  /\ cardState'.cols = cardState.cols
  /\ Len(cardState'.cells) = Len(cardState.cells)
  /\ \A n \in 1..Len(cardState.cells) :
       /\ cardState'.cells[n].relative = cardState.cells[n].relative
       /\ cardState'.cells[n].phrase = cardState.cells[n].phrase

\* the step flips the checked flag of cell k (0-based) and of no other cell
ToggleEffect(k) ==
  /\ SameLayout
  /\ \A n \in 1..Len(cardState.cells) :
       cardState'.cells[n].checked =
         IF n = k + 1 THEN ~cardState.cells[n].checked ELSE cardState.cells[n].checked

\* the step leaves every cell unchecked
ResetEffect ==
  /\ SameLayout
  /\ \A n \in 1..Len(cardState.cells) : cardState'.cells[n].checked = FALSE

\* the step turns the held card into a different card
CardChanged == cardState # Null /\ cardState' # Null /\ cardState' # cardState

OnlyToggleAndReset ==
  /\ (lastAction'.name = "toggle") =>
       \A k \in 0..(MaxUiRelatives * DefaultLimit * 2) : ToggleCell(k) => ToggleEffect(k)
  /\ (lastAction'.name = "reset") => ResetEffect
  /\ (CardChanged /\ ~lastAction'.generated) => lastAction'.name \in {"toggle", "reset"}

\* C9: a held card changes only by a cell toggle or a reset, unless a new
\* card is generated in its place; a toggle of cell k flips checked of cell
\* k and nothing else; a reset leaves all cells unchecked and the relatives,
\* phrases, rows, cols and number of cells as they were.
C9_OnlyToggleAndReset == [][OnlyToggleAndReset]_vars

\* a toggle has run on a card that kept another cell checked
C9_Witness ==
  /\ lastAction.name = "toggle"
  /\ cardState # Null
  /\ CheckedCount(cardState.cells) = 2

\* the held card carries the four key fields of the configuration
SameKey(card, config) ==
  /\ card.eventId = config.eventId
  /\ card.playerName = config.playerName
  /\ card.maxRelatives = config.maxRelatives
  /\ card.phrasesPerRelative = config.phrasesPerRelative

CardCache ==
  (lastAction'.name = "start-game" /\ ~lastAction'.refused) =>
    LET config == eventConfig'
    IN IF cardState # Null /\ SameKey(cardState, config)
       THEN /\ cardState' = cardState
            /\ ~lastAction'.generated
       ELSE /\ lastAction'.generated
            /\ cardState' # Null
            /\ SameKey(cardState', config)
            /\ CheckedCount(cardState'.cells) = 0
            /\ storage'[STORAGE_KEYS.CARD_STATE] = JSONstringify(cardState')

\* C10: start-game keeps the held card unchanged, checked flags included,
\* and does not call generateCard when the card's eventId, playerName,
\* maxRelatives and phrasesPerRelative equal the entered configuration;
\* otherwise it generates a new card, which replaces the held and the
\* stored one.
C10_CardCache == [][CardCache]_vars

\* start-game has kept a card with a checked cell
C10_Witness ==
  /\ lastAction.name = "start-game"
  /\ ~lastAction.generated /\ ~lastAction.refused
  /\ cardState # Null
  /\ CheckedCount(cardState.cells) >= 1

\* the card start-game generates for the configuration it has stored
FreshCard(config) ==
  NewCardState(generateCard(config.eventId, config.playerName, relatives,
                            config.maxRelatives, config.phrasesPerRelative),
               config.eventId, config.playerName,
               config.maxRelatives, config.phrasesPerRelative)

\* a start-game that went through while a card of another key was held
StartGameReplaces ==
  /\ lastAction'.name = "start-game" /\ ~lastAction'.refused
  /\ cardState # Null
  /\ ~SameKey(cardState, eventConfig')

CardDiscard ==
  /\ (lastAction'.name \in {"new-game", "init-shared"}) =>
       /\ cardState' = Null
       /\ storage'[STORAGE_KEYS.CARD_STATE] = Null
  /\ StartGameReplaces =>
       /\ cardState' = FreshCard(eventConfig')
       /\ CheckedCount(cardState'.cells) = 0
       /\ storage'[STORAGE_KEYS.CARD_STATE] = JSONstringify(cardState')

\* C11: after new-game and after loading a shared link no card is held in
\* memory or in storage; after a start-game whose configuration differs from
\* the held card's key, the card in memory and in storage is the freshly
\* generated one, with no cell checked.
C11_CardDiscard == [][CardDiscard]_vars

\* new-game has run: the screen is the event setup and no card is left
C11_Witness ==
  /\ lastAction.name = "new-game"
  /\ screen = "event-setup-screen"
  /\ cardState = Null
  /\ eventConfig # Null

\* ------------------------------------------------------------------------
\* Properties of seededShuffle (checked under SpecShuffle)
\* ------------------------------------------------------------------------
ShuffleCalled == call # Null /\ call.fn = "seededShuffle" /\ ret # Null

\* the number of positions of seq that hold x
Occurrences(seq, x) == Cardinality({n \in 1..Len(seq) : seq[n] = x})

IsPermutation(a, b) ==
  /\ Len(a) = Len(b)
  /\ \A x \in ShuffleItems : Occurrences(a, x) = Occurrences(b, x)

\* the array of the caller is the same before and after a call
InputKept == CallSeededShuffle => call'.array = call.array

\* C12: the sequence seededShuffle returns has the length of its input and
\* holds every element as often as the input does, and the input array is
\* the same after the call as before it.
C12_ShufflePermutes ==
  /\ [](ShuffleCalled => IsPermutation(ret.value, call.array))
  /\ [][InputKept]_vars

\* a call has returned an array with a repeated element in another order
C12_Witness ==
  /\ ShuffleCalled
  /\ Len(call.array) = 3
  /\ Occurrences(call.array, "x") = 2
  /\ ret.value # call.array

\* ------------------------------------------------------------------------
\* Properties of hashString (checked under SpecHash)
\* ------------------------------------------------------------------------
\* the polynomial hash h := h * 31 + c folded over str from position i, h
\* being cut to 32 bits after every step (two's complement)
RECURSIVE PolyHash(_, _, _)
PolyHash(str, i, h) ==
  IF i > Len(str) THEN h
  ELSE PolyHash(str, i + 1, Add32(Imul(h, Word(0, 31)), Word(0, str[i])))

\* the two's complement word h denotes a negative number
IsNegative32(h) == h.hi >= 32768

\* value is the absolute value of the number that h denotes
IsAbsOf(value, h) ==
  IF IsNegative32(h) THEN Add32(value, h) = Word(0, 0) /\ value # Word(0, 0)
  ELSE value = h

\* value is an integer of 0 .. 2^31
InHashRange(value) ==
  /\ value.lo \in 0..(W16 - 1)
  /\ value.hi \in 0..32768
  /\ value.hi = 32768 => value.lo = 0

\* C13: hashString(s) is the absolute value of the polynomial hash
\* h := h * 31 + charCode folded over s with h cut to a signed 32-bit
\* integer after every step, an integer of 0 .. 2^31.
C13_HashValue ==
  (call # Null /\ call.fn = "hashString") =>
    /\ IsAbsOf(ret.value, PolyHash(call.str, 1, Word(0, 0)))
    /\ InHashRange(ret.value)

\* the hash of a string whose polynomial hash has wrapped to a negative
\* 32-bit value
C13_Witness ==
  /\ call # Null /\ call.fn = "hashString"
  /\ Len(call.str) = MaxHashLen
  /\ IsNegative32(PolyHash(call.str, 1, Word(0, 0)))
  /\ ret.value.hi < 32768

\* ------------------------------------------------------------------------
\* Properties of the limits handed to generateCard (checked under Spec)
\* ------------------------------------------------------------------------
\* the limit start-game has passed to generateCard for the text typed
LimitCoerced(text, limit) ==
  /\ limit >= 0
  /\ ParseInt(text).nan => limit = DefaultLimit

\* a start-game with the texts m and n of the two limit inputs that has
\* called generateCard
CoercedLimits(m, n) ==
  (\E e \in EventIdInputs, p \in PlayerNameInputs : StartGame(e, p, m, n)) =>
    /\ LimitCoerced(m, cardState'.maxRelatives)
    /\ LimitCoerced(n, cardState'.phrasesPerRelative)

\* C14: the maxRelatives and phrasesPerRelative that start-game hands to
\* generateCard are non-negative integers, and an empty or non-numeric
\* text is replaced by the default 5.
C14_LimitsCoerced ==
  [][(lastAction'.name = "start-game" /\ lastAction'.generated) =>
       \A m \in LimitInputs, n \in LimitInputs : CoercedLimits(m, n)]_vars

\* ------------------------------------------------------------------------
\* Properties of loadState (checked under SpecLoad)
\* ------------------------------------------------------------------------
SomeItemUnparsable == \E key \in StorageKeySet : storage[key] = Corrupt

AllDefaults == relatives = <<>> /\ eventConfig = Null /\ cardState = Null

\* each absent item has given its field the empty default
AbsentAsDefault ==
  /\ storage[STORAGE_KEYS.RELATIVES] = Null => relatives = <<>>
  /\ storage[STORAGE_KEYS.EVENT_CONFIG] = Null => eventConfig = Null
  /\ storage[STORAGE_KEYS.CARD_STATE] = Null => cardState = Null

\* C15: when loadState has run, an unparsable item among the three stored
\* ones leaves relatives = [], eventConfig = null and cardState = null, all
\* three and not only the field of that item; an absent item leaves its
\* field at the empty default.
C15_LoadStateDefaults ==
  (lastAction.name = "loadState") =>
    IF SomeItemUnparsable THEN AllDefaults ELSE AbsentAsDefault

\* loadState has run over stored relatives that parse and an event
\* configuration that does not
C15_Witness ==
  /\ lastAction.name = "loadState"
  /\ storage[STORAGE_KEYS.RELATIVES] \notin {Null, Corrupt}
  /\ Len(JSONparse(storage[STORAGE_KEYS.RELATIVES])) = 1
  /\ storage[STORAGE_KEYS.EVENT_CONFIG] = Corrupt
  /\ relatives = <<>>

\* ------------------------------------------------------------------------
\* Properties of the cards of two players (checked under SpecPair)
\* ------------------------------------------------------------------------
PairCalled == call # Null /\ call.fn = "generateCardPair" /\ ret # Null

SameSelection(rs) ==
  \A k \in 1..Len(rs) :
    Occurrences(ret.first.selected, rs[k]) = Occurrences(ret.second.selected, rs[k])

\* the call has exactly one relative with a phrase, and it has one phrase
SingleArrangement ==
  /\ GenValidCount = 1
  /\ \A k \in 1..Len(call.relatives) : Len(call.relatives[k].phrases) <= 1

GenValidRelatives == SelectSeq(call.relatives, LAMBDA r : Len(r.phrases) > 0)

\* the captured seed of a closure made with seed after k invocations
RECURSIVE SeedAfter(_, _)
SeedAfter(seed, k) == IF k = 0 THEN seed ELSE SeedAfter(NextSeed(seed), k - 1)

\* the draws of one phrase shuffle per selected relative from the k-th on
RECURSIVE PhraseDraws(_)
PhraseDraws(k) ==
  IF k > Len(ret.selected) THEN 0
  ELSE (Len(ret.selected[k].phrases) - 1) + PhraseDraws(k + 1)

\* from the k-th selected relative on, the phrases of each relative are
\* those of a shuffle of its list on the generator that the shuffle before
\* it has left, and the last shuffle leaves the generator of the run
RECURSIVE PhraseShufflesInOrder(_, _)
PhraseShuffleThen(k, shuffled) ==
  /\ ret.picked[k] = SelectPhrases(shuffled.result, call.phrasesPerRelative)
  /\ PhraseShufflesInOrder(k + 1, shuffled.rng)

PhraseShufflesInOrder(k, rng) ==
  IF k > Len(ret.selected) THEN rng = ret.rng
  ELSE PhraseShuffleThen(k, seededShuffle(ret.selected[k].phrases, rng))

\* the relatives shuffle comes first, on the generator as it was made
RelativesShuffleFirst(shuffled) ==
  /\ ret.selected = Slice(shuffled.result, 0, Min(call.maxRelatives, Len(shuffled.result)))
  /\ PhraseShufflesInOrder(1, shuffled.rng)

GenSeed == hashString(call.eventId \o <<58>> \o call.playerName)

\* C17: the run draws from one generator seeded with
\* hashString(eventId + ":" + playerName): first the shuffle of the
\* relatives with a phrase, then one phrase shuffle per selected relative
\* in selection order; the draws number (valid relatives - 1) plus the sum
\* over the selected relatives of (phrases - 1), none without a relative
\* with a phrase, and the generator is never made anew in between.
C17_OneGenerator ==
  GenCalled =>
    /\ ret.rng.seed = SeedAfter(GenSeed, ret.rng.calls)
    /\ IF GenValidCount = 0 THEN ret.rng.calls = 0
       ELSE /\ ret.rng.calls = (GenValidCount - 1) + PhraseDraws(1)
            /\ RelativesShuffleFirst(seededShuffle(GenValidRelatives, mulberry32(GenSeed)))

\* a run that shuffled two relatives and the two phrases of each of them
C17_Witness ==
  /\ GenCalled
  /\ Len(ret.selected) = 2
  /\ \A k \in 1..2 : Len(ret.selected[k].phrases) = 2
  /\ ret.rng.calls = 3

\* ------------------------------------------------------------------------
\* Properties of the draws of seededShuffle (checked under SpecShuffle)
\* ------------------------------------------------------------------------
\* the invocations rng, rng, ... made for the positions i, i - 1, ..., 1
\* each return a value of [0, 1) and give a swap index of 0 .. position
RECURSIVE DrawsInRange(_, _)
DrawInRange(draw, i) ==
  /\ draw.value.hi \in 0..(W16 - 1) /\ draw.value.lo \in 0..(W16 - 1)
  /\ ShuffleIndex(draw.value, i) \in 0..i
  /\ DrawsInRange(draw.rng, i - 1)

DrawsInRange(rng, i) == i <= 0 \/ DrawInRange(RngCall(rng), i)

\* C18: a call of seededShuffle on n elements invokes rng n - 1 times when
\* n >= 2 and not at all when n <= 1, and the index j drawn for position i
\* is one of 0 .. i.
C18_ShuffleDraws ==
  ShuffleCalled =>
    /\ genRng.calls - ret.given.calls =
         IF Len(call.array) >= 2 THEN Len(call.array) - 1 ELSE 0
    /\ DrawsInRange(ret.given, Len(call.array) - 1)

\* a second call on three elements, made with the generator that the
\* first call had advanced
C18_Witness ==
  /\ ShuffleCalled
  /\ Len(call.array) = 3
  /\ ret.given.calls = 2
  /\ genRng.calls = 4

\* ------------------------------------------------------------------------
\* Properties of mulberry32 (checked under SpecRng)
\* ------------------------------------------------------------------------
RngCalled == call # Null /\ call.fn = "mulberry32" /\ ret # Null

\* (state + k * 0x6d2b79f5) modulo 2^32 for a 32-bit state
RECURSIVE WrappedState(_, _)
WrappedState(state, k) ==
  IF k = 0 THEN state ELSE WrappedState(Add32(state, Gamma), k - 1)

\* the Mulberry32 mixing of a 32-bit state
Mulberry32Mix(state) == Mix14(Mix7(Mix15(state)))

\* C19: the k-th value returned by a generator made by mulberry32(seed) is
\* the Mulberry32 mixing of (seed + k * 0x6d2b79f5) modulo 2^32, an
\* unsigned 32-bit integer divided by 2^32; it depends on seed and k only.
C19_WrappedState ==
  RngCalled =>
    /\ ret.value = Mulberry32Mix(WrappedState(call.seed, genRng.calls))
    /\ ret.value.hi \in 0..(W16 - 1)
    /\ ret.value.lo \in 0..(W16 - 1)

\* the captured seed has grown beyond 2^32 twice over
C19_Witness ==
  /\ RngCalled
  /\ genRng.calls = 5
  /\ genRng.seed.hi >= 2 * W16

\* ------------------------------------------------------------------------
\* Properties of checkBingo without rows or columns (checked under
\* SpecBingoZero)
\* ------------------------------------------------------------------------
\* C20: checkBingo returns false whenever rows = 0 or cols = 0, whatever
\* the cells are: none, some, checked or not.
C20_ZeroDimension ==
  (call # Null /\ call.fn = "checkBingo" /\ (call.rows = 0 \/ call.cols = 0)) =>
    ret.value = FALSE

\* no rows, two columns, and two cells that are both checked
C20_Witness ==
  /\ call # Null /\ call.fn = "checkBingo"
  /\ call.rows = 0 /\ call.cols = 2
  /\ Len(call.cells) = 2
  /\ CheckedCount(call.cells) = 2
  /\ ret.value = FALSE

\* ------------------------------------------------------------------------
\* Properties of the bingo message (checked under Spec)
\* ------------------------------------------------------------------------
\* C21: whenever the game screen is shown, hence after every cell toggle,
\* reset and start-game, a card is held and the bingo message is visible
\* exactly when checkBingo is true of the card's cells, rows and cols as
\* they are in that state.
C21_MessageFollowsCard ==
  (screen = "game-screen") =>
    /\ cardState # Null
    /\ bingoVisible <=> checkBingo(cardState.cells, cardState.rows, cardState.cols)

\* a toggle has completed a line of a card and the message is shown
C21_Witness ==
  /\ screen = "game-screen"
  /\ lastAction.name = "toggle"
  /\ cardState # Null /\ cardState.rows >= 1 /\ cardState.cols >= 1
  /\ CheckedCount(cardState.cells) >= 1
  /\ bingoVisible

LimitsCalled == call # Null /\ call.fn = "generateCardLimits" /\ ret # Null

\* the cell of row i, column c (1-based) of a card; Null beyond its cells
CardCell(card, i, c) ==
  IF (i - 1) * card.cols + c \in 1..Len(card.cells)
  THEN card.cells[(i - 1) * card.cols + c]
  ELSE Null

\* the cell of the smaller card at row i, column c is found at the same
\* place of the larger card, unless it is padding
CellKept(small, large, i, c) ==
  /\ CardCell(small, i, c) # Null
  /\ CardCell(large, i, c) # Null
  /\ CardCell(small, i, c).relative = CardCell(large, i, c).relative
  /\ (CardCell(small, i, c).phrase # EmptyPhrase) =>
       CardCell(small, i, c).phrase = CardCell(large, i, c).phrase

\* the smaller card is the top-left part of the larger one
TopLeftPart(small, large) ==
  /\ small.rows <= large.rows
  /\ small.cols <= large.cols
  /\ \A i \in 1..small.rows : \A c \in 1..small.cols : CellKept(small, large, i, c)

\* C23: for the same eventId, playerName and relatives the card generated
\* with limits (k, P) is the top-left part of the card generated with
\* (k', P'), k <= k' and P <= P': each of its rows names the relative of
\* the same row of the larger card and starts with the same phrases in the
\* same order; only padding cells and the further rows and columns differ.
C23_TopLeftPart ==
  LimitsCalled => TopLeftPart(ret.first.value, ret.second.value)

\* ------------------------------------------------------------------------
\* Properties of the screens (checked under Spec)
\* ------------------------------------------------------------------------
\* a card is held on the game screen only
CardOnGameScreenOnly == (screen # "game-screen") => cardState = Null

\* a start-game that went through has called generateCard
StartGameGenerates ==
  (lastAction'.name = "start-game" /\ ~lastAction'.refused) =>
    /\ cardState = Null
    /\ lastAction'.generated

\* C24: with a localStorage that only the application writes, cardState
\* is null whenever the config screen or the event-setup screen is shown,
\* and every start-game that goes through generates a new card: it never
\* takes the branch that keeps the held card.
C24_CardOnGameScreenOnly == []CardOnGameScreenOnly /\ [][StartGameGenerates]_vars

\* a shared link was opened while a game of a named player was stored:
\* the event-setup screen is shown and no card is held
C24_Witness ==
  /\ lastAction.name = "init-shared"
  /\ screen = "event-setup-screen"
  /\ eventConfig # Null /\ eventConfig.playerName # <<>>
  /\ cardState = Null

\* the game shown is one of an event and a player that have a name, on a
\* card with a row
GameUsable ==
  (screen = "game-screen") =>
    /\ cardState # Null
    /\ cardState.eventId # <<>>
    /\ cardState.playerName # <<>>
    /\ cardState.rows >= 1

\* a start-game with a blank event id or a blank player name
BlankStartGame ==
  \E e \in EventIdInputs, p \in PlayerNameInputs, m \in LimitInputs, n \in LimitInputs :
    /\ Trim(e) = <<>> \/ Trim(p) = <<>>
    /\ StartGame(e, p, m, n)

BlankStartGameRefused ==
  (lastAction'.name = "start-game" /\ BlankStartGame) =>
    /\ eventConfig' = eventConfig
    /\ cardState' = cardState
    /\ screen' = screen

\* C25: whenever the game screen is shown the held card has a non-empty
\* eventId, a non-empty playerName and at least one row; a start-game
\* with an empty event id or player name changes neither eventConfig nor
\* cardState nor the screen.
C25_UsableGame == []GameUsable /\ [][BlankStartGameRefused]_vars

====
